---- MODULE Spec2Model ----
(***************************************************************************)
(* The schedex node of src/index.js: a two-event (on/off) daily scheduler. *)
(* Time is counted in seconds since a Sunday 00:00:00 local time.  A JS    *)
(* value that may be undefined (or NaN) is a sequence of length 0 or 1.    *)
(***************************************************************************)
EXTENDS Integers, Sequences, FiniteSets, TLC

\* ------------------------------------------------------------- bounds
\* inbound messages handled in one run
MaxMsgs == 1
\* days the clock may advance past the first day
MaxDays == 1
\* Math.random() is drawn from {0, 1/RandomSteps, ..., (RandomSteps-1)/RandomSteps}
RandomSteps == 2

\* ------------------------------------------------------------- time
Minute == 60
Hour == 60 * Minute
Day == 24 * Hour
\* the day the node is constructed on, counted from a Sunday (1 = Monday)
FirstDay == 1

Undefined == <<>>
NaN == <<>>
Def(x) == <<x>>
Val(m) == m[1]

Names == {"on", "off"}
Inverse(e) == IF e = "on" THEN "off" ELSE "on"
Props == <<"time", "topic", "payload", "offset", "randomoffset">>
PropSet == {Props[i] : i \in 1..Len(Props)}

StartOfDay(t) == t - (t % Day)
Weekday(t) == (t \div Day) % 7

\* the weekday masks a node is configured with (index 1 = Sunday)
Masks == { <<TRUE, TRUE, TRUE, TRUE, TRUE, TRUE, TRUE>>,
           <<FALSE, FALSE, FALSE, FALSE, FALSE, FALSE, FALSE>>,
           <<FALSE, TRUE, FALSE, FALSE, FALSE, FALSE, FALSE>> }

\* the time specs, offsets and texts used as inputs
TimeSpecs == {"00:01", "25:61", "sunrise", "bogus"}
OffsetTokens == {"0", "-3", "abc"}
BoolTokens == {"true", "false"}
TopicTokens == {"t1", "t2"}
PayloadTokens == {"p1", "p2"}
\* seconds of the day at which the clock is observed
ClockPoints == {Minute, Minute + 30, Day - 30}
\* seconds of the first day at which the node is constructed
StartPoints == {Minute + 30, Day - 30}

VARIABLES now, weekdays, suspended, events, timers, status, last, msgs, closed
vars == <<now, weekdays, suspended, events, timers, status, last, msgs, closed>>

\* ------------------------------------------------------------- helpers
\* new RegExp(/(\d+):(\d+)/).exec(event.time): <<hours, minutes>> or null
ClockMatch(time) ==
    CASE time = "00:01" -> Def(<<0, 1>>)
      [] time = "23:59" -> Def(<<23, 59>>)
      [] time = "25:61" -> Def(<<25, 61>>)
      [] OTHER -> Undefined

\* SunCalc.getTimes(new Date(), lat, lon)[key]
SunCalcTimes(t, key) ==
    CASE key = "sunrise" -> Def(StartOfDay(t) + 6 * Hour + 17)
      [] key = "sunset" -> Def(StartOfDay(t) + 18 * Hour + 42)
      [] OTHER -> Undefined

\* Number(token)
ToNumber(tok) ==
    CASE tok = "0" -> Def(0)
      [] tok = "3" -> Def(3)
      [] tok = "-3" -> Def(-3)
      [] OTHER -> NaN

\* toBoolean(val)
ToBoolean(val) == val \in {"true", "TRUE", "True"}

\* typeConstructor(value) of eachProp
TypeConstructor(prop, tok) ==
    CASE prop = "offset" -> ToNumber(tok)
      [] prop = "randomoffset" -> ToBoolean(tok)
      [] OTHER -> tok

\* previous !== current, for the values of property prop
StrictNotEqual(prop, a, b) ==
    IF prop = "offset" THEN a = NaN \/ b = NaN \/ a # b ELSE a # b

\* the truthiness of event.offset
OffsetTruthy(off) == off # NaN /\ Val(off) # 0

NoWeekday == \A i \in 1..7 : ~weekdays[i]

EmptyLog == [published |-> <<>>, emitted |-> <<>>, scheduled |-> <<>>,
             bootstraps |-> 0, err |-> FALSE, hung |-> FALSE]

\* a clearTimeout that cancels nothing
ClearTimeoutNoop(tms, handle) == tms

\* clearTimeout(handle)
ClearTimeout(tms, handle) ==
    IF handle = Undefined THEN tms ELSE {tm \in tms : tm.id # Val(handle)}

\* the handle setTimeout returns: one no live timer and no event holds
NewHandle(tms, evs, e) ==
    CHOOSE i \in 1..4 :
        /\ \A tm \in tms : tm.id # i
        /\ evs[Inverse(e)].timeout # Def(i)
        /\ \A j \in 1..(i - 1) :
              (\E tm \in tms : tm.id = j) \/ evs[Inverse(e)].timeout = Def(j)

Publish(n, st) ==
    [n EXCEPT !.status = st, !.log.published = Append(@, st)]

\* while (!weekdays[event.moment.weekday()]) event.moment.add(1, 'day');
\* with no weekday enabled the loop never ends (Schedule records that)
RECURSIVE AdjustWeekday(_)
AdjustWeekday(m) ==
    IF weekdays[Weekday(m) + 1] THEN m ELSE AdjustWeekday(m + Day)

\* ------------------------------------------------------------- schedule
\* lines 131-142 of schedule(): the moment the time spec resolves to at
\* clock time t, before seconds are zeroed; undefined when it is no clock time
\* and SunCalc has no such key
Resolve(time, t) ==
    LET matches == ClockMatch(time)
    IN  IF matches # Undefined
        THEN Def(StartOfDay(t) + Val(matches)[1] * Hour
                 + Val(matches)[2] * Minute + (t % Minute))
        ELSE SunCalcTimes(t, time)

\* lines 144-151 of schedule(): seconds zeroed, then the offset applied
ApplyOffset(m, offset, randomoffset, r) ==
    LET m1 == m - (m % Minute)
        adjustment == IF randomoffset
                      THEN (Val(offset) * Minute * r) \div RandomSteps
                      ELSE Val(offset) * Minute
    IN  IF OffsetTruthy(offset) THEN m1 + adjustment ELSE m1

\* lines 158-160 of schedule(): the day rollover
Rollover(m, isInitial, t) ==
    IF ~isInitial \/ (isInitial /\ t > m) THEN m + Day ELSE m

\* schedule(event, isInitial), with r the numerator of Math.random()
Schedule(n, e, isInitial, r) ==
    LET ev == n.events[e]
        fresh == Resolve(ev.time, now)
        m0 == IF fresh # Undefined THEN fresh ELSE ev.moment
    IN  IF m0 # Undefined /\ NoWeekday
        THEN [n EXCEPT !.log.hung = TRUE,
                       !.log.scheduled = Append(@,
                           [event |-> e, isInitial |-> isInitial,
                            resolved |-> fresh # Undefined,
                            advances |-> 0,
                            armed |-> Undefined])]
        ELSE IF m0 # Undefined
        THEN LET m2 == ApplyOffset(Val(m0), ev.offset, ev.randomoffset, r)
                 m3 == AdjustWeekday(m2)
                 m4 == Rollover(m3, isInitial, now)
                 cleared == ClearTimeout(n.timers, ev.timeout)
                 h == NewHandle(cleared, n.events, e)
             IN  [n EXCEPT !.events[e].moment = Def(m4),
                           !.events[e].timeout = Def(h),
                           !.timers = cleared \cup
                                      {[id |-> h, event |-> e, due |-> m4]},
                           !.log.scheduled = Append(@,
                               [event |-> e, isInitial |-> isInitial,
                                resolved |-> fresh # Undefined,
                                advances |-> (m3 - m2) \div Day,
                                armed |-> Def(m4)])]
        ELSE [Publish(n, <<"Invalid time", e>>) EXCEPT
                 !.log.scheduled = Append(@,
                     [event |-> e, isInitial |-> isInitial,
                      resolved |-> FALSE, advances |-> 0,
                      armed |-> Undefined])]

\* ------------------------------------------------------------- send
\* send(event, manual): the message is emitted, then the status text is
\* built, which reads event.inverse.moment unless config.suspended
Send(n, e, manual) ==
    LET out == [n EXCEPT !.log.emitted = Append(@,
                    [topic |-> n.events[e].topic,
                     payload |-> n.events[e].payload])]
    IN  IF n.suspended
        THEN Publish(out, <<"sent", e, manual, "suspended">>)
        ELSE IF n.events[Inverse(e)].moment = Undefined
        THEN [out EXCEPT !.log.err = TRUE]
        ELSE Publish(out, <<"sent", e, manual, "until">>)

\* event.callback
Callback(n, e, r) ==
    LET sent == Send(n, e, FALSE)
    IN  IF sent.log.err THEN sent ELSE Schedule(sent, e, FALSE, r)

\* ------------------------------------------------------------- lifecycle
\* suspend() that forgets the off event's timer
SuspendOnOnly(n) ==
    Publish([n EXCEPT !.timers = ClearTimeout(n.timers,
                                              n.events["on"].timeout)],
            <<"suspended", NoWeekday>>)

\* suspend()
Suspend(n) ==
    LET t1 == ClearTimeout(n.timers, n.events["on"].timeout)
        t2 == ClearTimeout(t1, n.events["off"].timeout)
    IN  Publish([n EXCEPT !.timers = t2], <<"suspended", NoWeekday>>)

\* resume()
Resume(n, rOn, rOff) ==
    LET s1 == Schedule(n, "on", TRUE, rOn)
        s2 == Schedule(s1, "off", TRUE, rOff)
    IN  IF s1.log.hung THEN s1
        ELSE IF s2.log.hung THEN s2
        ELSE IF s2.events["on"].moment = Undefined
           \/ s2.events["off"].moment = Undefined
        THEN [s2 EXCEPT !.log.err = TRUE]
        ELSE Publish(s2, <<"resumed",
                 IF Val(s2.events["on"].moment) < Val(s2.events["off"].moment)
                 THEN "on" ELSE "off">>)

\* bootstrap() that looks at the suspended flag only
BootstrapFlagOnly(n, rOn, rOff) ==
    LET b == [n EXCEPT !.log.bootstraps = @ + 1]
    IN  IF b.suspended THEN Suspend(b) ELSE Resume(b, rOn, rOff)

\* bootstrap()
Bootstrap(n, rOn, rOff) ==
    LET b == [n EXCEPT !.log.bootstraps = @ + 1]
    IN  IF b.suspended \/ NoWeekday THEN Suspend(b) ELSE Resume(b, rOn, rOff)

\* ------------------------------------------------------------- input
\* eventName + msgProperty
Key(e, p) ==
    CASE e = "on" /\ p = "time" -> "ontime"
      [] e = "on" /\ p = "topic" -> "ontopic"
      [] e = "on" /\ p = "payload" -> "onpayload"
      [] e = "on" /\ p = "offset" -> "onoffset"
      [] e = "on" /\ p = "randomoffset" -> "onrandomoffset"
      [] e = "off" /\ p = "time" -> "offtime"
      [] e = "off" /\ p = "topic" -> "offtopic"
      [] e = "off" /\ p = "payload" -> "offpayload"
      [] e = "off" /\ p = "offset" -> "offoffset"
      [] e = "off" /\ p = "randomoffset" -> "offrandomoffset"

\* new RegExp('.*' + key + '\\s+(\\S+)').exec(payload), payload given as its
\* whitespace-separated words: the word after the last key that has one
Capture(tokens, key) ==
    LET at == {i \in 1..(Len(tokens) - 1) : tokens[i] = key}
    IN  IF at = {} THEN Undefined
        ELSE Def(tokens[(CHOOSE i \in at : \A j \in at : j <= i) + 1])

\* msg.payload.hasOwnProperty(key) and msg.payload[key]
OwnProperty(props, key) ==
    IF key \in DOMAIN props THEN Def(props[key]) ELSE Undefined

\* eachProp(callback) with the callbacks of node.on('input'): given[e, p] is
\* the raw value the message holds for event e's property p
EachProp(n, given) ==
    LET new(e, p) == IF given[e, p] # Undefined
                     THEN TypeConstructor(p, Val(given[e, p]))
                     ELSE n.events[e][p]
    IN  [events |-> [e \in Names |->
                       [time |-> new(e, "time"), topic |-> new(e, "topic"),
                        payload |-> new(e, "payload"),
                        offset |-> new(e, "offset"),
                        randomoffset |-> new(e, "randomoffset"),
                        moment |-> n.events[e].moment,
                        timeout |-> n.events[e].timeout]],
         handled |-> \E e \in Names, i \in 1..Len(Props) :
                         given[e, Props[i]] # Undefined,
         requiresBootstrap |->
             \E e \in Names, i \in 1..Len(Props) :
                 /\ given[e, Props[i]] # Undefined
                 /\ StrictNotEqual(Props[i], n.events[e][Props[i]],
                                   new(e, Props[i]))]

\* a manual fire that re-arms the event as the timer callback does
ManualFireReschedules(n, e) == Schedule(Send(n, e, TRUE), e, FALSE, 0)

\* the payload is exactly 'on' or 'off': send(events[e], true)
ManualFire(n, e) == Send(n, e, TRUE)

\* the end of node.on('input')
Finish(n, handled, requiresBootstrap, rOn, rOff) ==
    IF ~handled THEN Publish(n, <<"Unsupported input">>)
    ELSE IF requiresBootstrap THEN Bootstrap(n, rOn, rOff)
    ELSE n

\* node.on('input') for a string payload, given as its words
StringInput(n, tokens, rOn, rOff) ==
    IF tokens = <<"on">> THEN ManualFire(n, "on")
    ELSE IF tokens = <<"off">> THEN ManualFire(n, "off")
    ELSE LET named == \E i \in 1..Len(tokens) : tokens[i] = "suspended"
             match == Capture(tokens, "suspended")
         IN  IF named /\ match = Undefined
             THEN [n EXCEPT !.log.err = TRUE]
             ELSE LET susp == IF named THEN ToBoolean(Val(match))
                              ELSE n.suspended
                      given == [e \in Names, p \in PropSet |->
                                   Capture(tokens, Key(e, p))]
                      ep == EachProp(n, given)
                  IN  Finish([n EXCEPT !.suspended = susp,
                                       !.events = ep.events],
                             named \/ ep.handled,
                             (named /\ n.suspended # susp)
                                 \/ ep.requiresBootstrap,
                             rOn, rOff)

\* node.on('input') for an object payload: susp is its own property
\* 'suspended' if it has one, props its other own properties
ObjectInput(n, susp, props, rOn, rOff) ==
    LET named == susp # Undefined
        flag == IF named THEN Val(susp) ELSE n.suspended
        given == [e \in Names, p \in PropSet |->
                     OwnProperty(props, Key(e, p))]
        ep == EachProp(n, given)
    IN  Finish([n EXCEPT !.suspended = flag, !.events = ep.events],
               named \/ ep.handled,
               (named /\ n.suspended # flag) \/ ep.requiresBootstrap,
               rOn, rOff)

\* the property settings the inbound messages carry
Settings ==
    {<<"ontime", v>> : v \in TimeSpecs}
        \cup {<<"onoffset", v>> : v \in OffsetTokens}
        \cup {<<"onrandomoffset", v>> : v \in BoolTokens}
        \cup {<<"ontopic", v>> : v \in TopicTokens}
        \cup {<<"offtime", v>> : v \in {"sunrise", "bogus"}}
        \cup {<<"offpayload", v>> : v \in PayloadTokens}

StringPayloads ==
    {<<"on">>, <<"off">>, <<"suspended">>, <<"lights">>}
        \cup {<<"suspended", b>> : b \in BoolTokens}
        \cup Settings

ObjectPayloads ==
    {[susp |-> s, props |-> p] :
        s \in {Undefined, Def(TRUE), Def(FALSE)},
        p \in {<<>>, "ontime" :> "bogus",
               "ontopic" :> "t2" @@ "offtime" :> "00:01"}}

Draws == 0..(RandomSteps - 1)

\* the node as the constructor leaves it before bootstrap() runs
NewNode(susp, onTime, offTime) ==
    [suspended |-> susp,
     events |-> [e \in Names |->
                   [time |-> IF e = "on" THEN onTime ELSE offTime,
                    topic |-> "t1", payload |-> "p1",
                    offset |-> Def(0), randomoffset |-> FALSE,
                    moment |-> Undefined, timeout |-> Undefined]],
     timers |-> {},
     status |-> <<"none">>,
     log |-> EmptyLog]

Store(n, op) ==
    /\ suspended' = n.suspended
    /\ events' = n.events
    /\ timers' = n.timers
    /\ status' = n.status
    /\ last' = [op |-> op, log |-> n.log]

Init ==
    /\ now \in {FirstDay * Day + p : p \in StartPoints}
    /\ weekdays \in Masks
    /\ msgs = 0
    /\ closed = FALSE
    /\ \E susp \in BOOLEAN, onTime \in TimeSpecs, offTime \in {"sunrise"} :
          LET n == Bootstrap(NewNode(susp, onTime, offTime), 0, 0)
          IN  /\ suspended = n.suspended
              /\ events = n.events
              /\ timers = n.timers
              /\ status = n.status
              /\ last = [op |-> <<"init">>, log |-> n.log]

Node == [suspended |-> suspended, events |-> events, timers |-> timers,
         status |-> status, log |-> EmptyLog]

\* ------------------------------------------------------------- actions
\* the clock advances, never past a timer that is due
Tick ==
    /\ ~last.log.hung
    /\ \E t \in {d * Day + p : d \in FirstDay..(FirstDay + MaxDays),
                               p \in ClockPoints}
              \cup {tm.due : tm \in timers} :
          /\ t > now
          /\ t < (FirstDay + MaxDays + 1) * Day
          /\ \A tm \in timers : tm.due >= t
          /\ now' = t
    /\ last' = [op |-> <<"tick">>, log |-> EmptyLog]
    /\ UNCHANGED <<weekdays, suspended, events, timers, status, msgs, closed>>

\* a live timer that is due runs its event's callback
Fire ==
    /\ ~last.log.hung
    /\ \E tm \in timers, r \in Draws :
          /\ tm.due <= now
          /\ Store(Callback([Node EXCEPT !.timers = timers \ {tm}], tm.event, r),
                   <<"fire", tm.event, tm.due>>)
    /\ UNCHANGED <<now, weekdays, msgs, closed>>

\* node.on('close', suspend)
Close ==
    /\ ~closed
    /\ ~last.log.hung
    /\ closed' = TRUE
    /\ Store(Suspend(Node), <<"close">>)
    /\ UNCHANGED <<now, weekdays, msgs>>

\* node.on('input') receives a string payload
InputString(budget) ==
    /\ ~closed
    /\ ~last.log.hung
    /\ msgs < budget
    /\ msgs' = msgs + 1
    /\ \E tokens \in StringPayloads, rOn \in Draws, rOff \in Draws :
          Store(StringInput(Node, tokens, rOn, rOff), <<"string", tokens>>)
    /\ UNCHANGED <<now, weekdays, closed>>

\* node.on('input') receives an object payload
InputObject(budget) ==
    /\ ~closed
    /\ ~last.log.hung
    /\ msgs < budget
    /\ msgs' = msgs + 1
    /\ \E obj \in ObjectPayloads, rOn \in Draws, rOff \in Draws :
          Store(ObjectInput(Node, obj.susp, obj.props, rOn, rOff),
                <<"object", obj>>)
    /\ UNCHANGED <<now, weekdays, closed>>

Next ==
    Tick \/ Fire \/ Close \/ InputString(MaxMsgs) \/ InputObject(MaxMsgs)

Spec == Init /\ [][Next]_vars

\* the same node handling one more inbound message
NextLong ==
    \/ Tick
    \/ Fire
    \/ Close
    \/ InputString(MaxMsgs + 1)
    \/ InputObject(MaxMsgs + 1)

SpecLong == Init /\ [][NextLong]_vars

\* ------------------------------------------------------------- claims
Scheduled == {last.log.scheduled[i] : i \in 1..Len(last.log.scheduled)}
Published == {last.log.published[i] : i \in 1..Len(last.log.published)}
IsManual(op) == op[1] = "string" /\ op[2] \in {<<"on">>, <<"off">>}
IsInput(op) == op[1] \in {"string", "object"}
\* the configuration an inbound message can set
Fields == [suspended |-> suspended,
           events |-> [e \in Names |->
                         [time |-> events[e].time, topic |-> events[e].topic,
                          payload |-> events[e].payload,
                          offset |-> events[e].offset,
                          randomoffset |-> events[e].randomoffset]]]

\* C1: with at least one weekday enabled, every moment schedule() arms a
\* timer for (initial or re-arm, after the day rollover too) is on a weekday
\* whose mask entry is true.
C1_ArmedOnEnabledWeekday ==
    ~NoWeekday =>
        \A c \in Scheduled :
            c.armed # Undefined => weekdays[Weekday(Val(c.armed)) + 1]

\* C2: schedule(event, isInitial=true) never arms a timer for a moment that
\* is less than or equal to now.
C2_InitialArmsAfterNow ==
    \A c \in Scheduled :
        (c.isInitial /\ c.armed # Undefined) => Val(c.armed) > now

\* C3: when a timer fires and its callback re-arms the event, the new moment
\* is at least one day later than the firing that triggered the re-arm.
C3_RearmAdvancesOneDay ==
    last.op[1] = "fire" =>
        \A c \in Scheduled :
            c.armed # Undefined => Val(c.armed) >= last.op[3] + Day

\* C4: when schedule() cannot resolve the event's time spec it reports
\* 'Invalid time' and leaves no timer armed for that event, on the first
\* bootstrap and after a reconfiguration from a valid spec alike.
C4_UnresolvableArmsNothing ==
    \A c \in Scheduled :
        ~c.resolved =>
            /\ <<"Invalid time", c.event>> \in Published
            /\ c.armed = Undefined
            /\ \A tm \in timers : tm.event # c.event

\* C5: whenever the suspended flag is true or no weekday is enabled, no timer
\* is live and no automatic firing has just happened; a published
\* 'suspended' status names the 'no weekdays selected' cause only when the
\* mask has no enabled day.
C5_SuspendedHasNoTimer ==
    /\ (suspended \/ NoWeekday) => (timers = {} /\ last.op[1] # "fire")
    /\ \A st \in Published : (st[1] = "suspended" /\ st[2]) => NoWeekday

\* C5 witness: 'suspended true' arrived while timers had been armed, and the
\* step left none live.
C5_Witness ==
    /\ suspended /\ ~NoWeekday
    /\ IsInput(last.op) /\ last.log.bootstraps = 1
    /\ events["on"].timeout # Undefined /\ events["off"].timeout # Undefined
    /\ timers = {}
    /\ <<"suspended", FALSE>> \in Published

\* C6: with an all-false weekday mask every bootstrap enters Suspended
\* whatever the suspended flag, no timer is ever armed and schedule() is
\* never invoked.
C6_NoWeekdayNeverSchedules ==
    NoWeekday =>
        /\ timers = {}
        /\ Scheduled = {}
        /\ \A e \in Names : events[e].moment = Undefined
                            /\ events[e].timeout = Undefined
        /\ last.log.bootstraps = 1 => last.log.published = <<<<"suspended", TRUE>>>>

\* C6 witness: the mask is all false, the flag was just set to false by a
\* message and the bootstrap it triggered suspended.
C6_Witness ==
    /\ NoWeekday /\ ~suspended
    /\ IsInput(last.op) /\ last.log.bootstraps = 1
    /\ status = <<"suspended", TRUE>>

\* C7: a manual fire (payload exactly 'on' or 'off') emits that event's
\* {topic, payload} and changes no timer, no next moment, no EventSpec field
\* and not the suspended flag, and triggers no bootstrap.
C7_ManualFireFrame ==
    [][IsManual(last'.op) =>
          /\ last'.log.emitted =
                 <<[topic |-> events[last'.op[2][1]].topic,
                    payload |-> events[last'.op[2][1]].payload]>>
          /\ UNCHANGED <<events, timers, suspended, weekdays>>
          /\ last'.log.bootstraps = 0
          /\ last'.log.scheduled = <<>>]_vars

\* C7 witness: a manual 'on' was handled while both timers were pending.
C7_Witness ==
    /\ last.op = <<"string", <<"on">>>>
    /\ Cardinality(timers) = 2
    /\ Len(last.log.emitted) = 1

\* C8: in every Suspended state (by the flag or by an all-false mask, a next
\* moment computed or not) a manual fire emits the message and publishes a
\* manual-mode status without raising an error.
C8_ManualFireWhenSuspended ==
    (IsManual(last.op) /\ (suspended \/ NoWeekday)) =>
        /\ ~last.log.err
        /\ Len(last.log.emitted) = 1
        /\ status[1] = "sent" /\ status[3]

\* C9: an inbound message triggers no bootstrap when every field it sets
\* already has that value, and exactly one bootstrap when some field's new
\* value differs from the previous one.
C9_BootstrapIffChanged ==
    [][IsInput(last'.op) =>
          last'.log.bootstraps = IF Fields' # Fields THEN 1 ELSE 0]_vars

\* the inbound messages that match none of the recognized patterns
Unrecognized(op) ==
    \/ op[1] = "string" /\ op[2] \in {<<"lights">>, <<"suspended">>}
    \/ op[1] = "object" /\ op[2].susp = Undefined /\ op[2].props = <<>>

\* C10: a message that matches no recognized pattern, a 'suspended' command
\* with no value included, publishes 'Unsupported input', raises no
\* exception and changes no field, moment or timer.
C10_UnrecognizedIsReported ==
    [][Unrecognized(last'.op) =>
          /\ last'.log.published = <<<<"Unsupported input">>>>
          /\ ~last'.log.err
          /\ UNCHANGED <<events, timers, suspended>>]_vars

DayOf(t) == t \div Day
Enabled(d) == weekdays[(d % 7) + 1]
\* the first enabled day after day d
NextEnabledDay(d) ==
    CHOOSE x \in (d + 1)..(d + 7) :
        Enabled(x) /\ \A y \in (d + 1)..(x - 1) : ~Enabled(y)
Resolvable(e) == Resolve(events[e].time, now) # Undefined
LiveTimers(e) == {tm \in timers : tm.event = e}

\* C11: while Active with resolvable time specs and no inbound message, the
\* firing of an event is followed by its next firing on the next enabled
\* weekday: no enabled day is skipped and no disabled day is used.
C11_NextFiringOnNextEnabledDay ==
    (last.op[1] = "fire" /\ msgs = 0 /\ ~NoWeekday
        /\ \A e \in Names : Resolvable(e)) =>
        /\ Scheduled # {}
        /\ \A c \in Scheduled :
              /\ c.armed # Undefined
              /\ DayOf(Val(c.armed)) = NextEnabledDay(DayOf(last.op[3]))

\* C12: after the close event no timer is live, no automatic firing occurs
\* and no later step arms a timer.
C12_ClosedStaysQuiet ==
    closed =>
        /\ timers = {}
        /\ last.op[1] \in {"close", "tick"}
        /\ Scheduled = {}

\* C12 witness: the node was closed with a next moment computed, and the
\* clock has since passed that moment.
C12_Witness ==
    /\ closed
    /\ last.op[1] = "tick"
    /\ \E e \in Names : /\ events[e].timeout # Undefined
                        /\ Val(events[e].moment) <= now

\* C13: after construction and after every message or firing, when the
\* scheduler is not suspended and a weekday is enabled, every event whose
\* time spec resolves has a live timer, whatever the other event's spec, and
\* no exception has been raised.
C13_ResolvableEventsStayArmed ==
    (~suspended /\ ~NoWeekday /\ ~closed) =>
        /\ ~last.log.err
        /\ \A e \in Names : Resolvable(e) => LiveTimers(e) # {}

\* C14: each event has at most one live timer, the one its timeout handle
\* names, in every reachable state.
C14_OneTimerPerEvent ==
    /\ \A e \in Names : Cardinality(LiveTimers(e)) <= 1
    /\ \A tm \in timers : events[tm.event].timeout = Def(tm.id)

\* C14 witness: a reconfiguration re-armed both events while their earlier
\* timers were pending.
C14_Witness ==
    /\ last.op = <<"string", <<"onoffset", "-3">>>>
    /\ last.log.bootstraps = 1
    /\ Len(last.log.scheduled) = 2
    /\ \A e \in Names : Cardinality(LiveTimers(e)) = 1

\* the moment an initial computation gives for event e's configuration
InitialMoments(e) ==
    {Rollover(AdjustWeekday(ApplyOffset(Val(Resolve(events[e].time, now)),
                                        events[e].offset,
                                        events[e].randomoffset, r)),
              TRUE, now) : r \in Draws}
\* both events were scheduled with isInitial = true, and every live timer
\* targets a moment computed from the present configuration
RecomputedFromConfig ==
    /\ [i \in 1..Len(last.log.scheduled) |->
           <<last.log.scheduled[i].event, last.log.scheduled[i].isInitial>>]
       = <<(<<"on", TRUE>>), (<<"off", TRUE>>)>>
    /\ \A tm \in timers :
          /\ Resolvable(tm.event)
          /\ tm.due \in InitialMoments(tm.event)
          /\ events[tm.event].moment = Def(tm.due)

\* C15: after a message that changes the suspended flag or an EventSpec
\* field, with a weekday enabled and the scheduler not suspended, both events
\* are recomputed with isInitial = true from the configuration as it is after
\* the message and every live timer targets such a moment.
C15_ReconfigureRecomputesBoth ==
    [][(IsInput(last'.op) /\ Fields' # Fields /\ ~suspended' /\ ~NoWeekday)
          => RecomputedFromConfig']_vars

\* HH:MM with hours 0..23 and minutes 0..59
IsClockTime(time) ==
    /\ ClockMatch(time) # Undefined
    /\ Val(ClockMatch(time))[1] <= 23
    /\ Val(ClockMatch(time))[2] <= 59
\* the earliest instant after t that is at h:m on an enabled weekday
EarliestAt(h, m, t) ==
    LET at(d) == d * Day + h * Hour + m * Minute
        d0 == CHOOSE d \in DayOf(t)..(DayOf(t) + 7) :
                  /\ Enabled(d) /\ at(d) > t
                  /\ \A x \in DayOf(t)..(d - 1) : ~(Enabled(x) /\ at(x) > t)
    IN  at(d0)

\* C16: for a clock time HH:MM with zero offset the initial computation
\* gives the earliest instant strictly after now that is at HH:MM on an
\* enabled weekday.
C16_InitialIsEarliestEnabled ==
    ~NoWeekday =>
        \A c \in Scheduled :
            (c.isInitial /\ IsClockTime(events[c.event].time)
                /\ events[c.event].offset = Def(0)) =>
                c.armed = Def(EarliestAt(Val(ClockMatch(events[c.event].time))[1],
                                         Val(ClockMatch(events[c.event].time))[2],
                                         now))

\* C17: schedule() is reached only with a weekday enabled, so its weekday
\* loop ends after at most 7 one-day advances.
C17_WeekdayLoopBounded ==
    Scheduled # {} =>
        /\ ~NoWeekday
        /\ ~last.log.hung
        /\ \A c \in Scheduled : c.advances <= 7

\* C17 witness: the weekday loop advanced a moment by six days.
C17_Witness ==
    \E c \in Scheduled : c.advances = 6 /\ c.armed # Undefined

\* C18: a string of the form H:M whose hour is above 23 or whose minute is
\* above 59 is not taken as a clock time: schedule() reports 'Invalid time'
\* and arms no timer.
C18_OutOfRangeClockRejected ==
    \A c \in Scheduled :
        (ClockMatch(events[c.event].time) # Undefined
            /\ ~IsClockTime(events[c.event].time)) =>
            /\ c.armed = Undefined
            /\ <<"Invalid time", c.event>> \in Published
            /\ LiveTimers(c.event) = {}
====
